---- MODULE Spec2Model ----
(***************************************************************************)
(* Model of the out-of-order pipeline simulator in src/procsim.cpp.        *)
(* The simulator's globals are the variables; every pipeline stage called  *)
(* by run_proc is one action, taken in the order of the driver loop.       *)
(* Instructions are identified by their tag (a pointer to an Inst is the   *)
(* tag of that Inst, 0 is nullptr); a pointer to an FU is its index in     *)
(* fu_pool (0 is nullptr).                                                 *)
(***************************************************************************)
EXTENDS Integers, Sequences, FiniteSets

\* ---- bounds of the model -------------------------------------------------
\* records in a trace
MaxLen == 3
\* FUs of type 0 (at least one: every scenario of the design uses type 0)
MaxK0 == 2
\* FUs of type 1 and of type 2 (possibly none)
MaxK == 1
\* result buses asked of setup_proc (0 is normalised there)
MaxR == 2
\* fetch width (at least 1, as the interface requires)
MaxF == 3
\* ticks within which a run of n records ends if it ends at all (a chain of
\* dependent instructions takes two cycles per instruction after the first)
TickBound(n) == 3 * n + 4
\* ticks of the driver loop after which a run is given up as not terminating
\* (the longest trace has MaxLen records, or four when MaxLen is smaller)
MaxCycle == TickBound(IF MaxLen < 4 THEN 4 ELSE MaxLen)

\* ---- program constants ---------------------------------------------------
kMaxRegs == 128
kTypes == 3
\* mutant: every FU takes two cycles
kLatency_two == [t \in 0..(kTypes - 1) |-> 2]
kLatency == [t \in 0..(kTypes - 1) |-> 1]

\* ---- the inputs ----------------------------------------------------------
Rec(op, d, s0, s1) == [op_code |-> op, dest_reg |-> d, src_reg |-> <<s0, s1>>]

\* the records a trace is made of: every FU type (an op code below 0, one in
\* range, one reduced modulo kTypes), sources that name no register or one
\* past the register file, read-after-write and write-after-write on r1, r2
Records ==
    { Rec(0, 1, -1, -1),
      Rec(0, 2, 1, -1),
      Rec(-1, 1, 2, 1),
      Rec(5, 2, 1, kMaxRegs) }

RECURSIVE SeqsUpTo(_, _)
SeqsUpTo(S, n) ==
    IF n = 0 THEN {<<>>}
    ELSE LET shorter == SeqsUpTo(S, n - 1)
         IN shorter \cup {Append(q, x) : q \in {p \in shorter : Len(p) = n - 1}, x \in S}

\* one instruction of type 0 that names no register
SingleTrace == <<Rec(0, -1, -1, -1)>>
\* two instructions of type 0, the second reading what the first writes
RAWTrace == <<Rec(0, 1, -1, -1), Rec(0, 2, 1, -1)>>

\* two instructions of type 0 and two of type 2, none waiting for another
ContendedTrace ==
    <<Rec(0, 2, 1, -1), Rec(0, 2, 1, -1),
      Rec(5, 2, 1, kMaxRegs), Rec(5, 2, 1, kMaxRegs)>>

Traces == SeqsUpTo(Records, MaxLen) \cup {SingleTrace, RAWTrace, ContendedTrace}

\* the registers whose reg_map entry a trace can touch
MappedRegs ==
    {r \in UNION {{x.dest_reg, x.src_reg[1], x.src_reg[2]} : x \in Records} :
        r >= 0 /\ r < kMaxRegs}

\* ---- sequence helpers ----------------------------------------------------
Range(q) == {q[i] : i \in DOMAIN q}

Min(a, b) == IF a < b THEN a ELSE b
Max(a, b) == IF a > b THEN a ELSE b

\* std::find + erase: drop the first occurrence of x, if any
RECURSIVE RemoveFirst(_, _)
RemoveFirst(q, x) ==
    IF q = <<>> THEN <<>>
    ELSE IF Head(q) = x THEN Tail(q)
    ELSE <<Head(q)>> \o RemoveFirst(Tail(q), x)

\* std::sort under the comparator less (a Boolean function of two elements).
\* The comparators used end in a comparison of tags, which are unique, so they
\* are total on the elements sorted and the result is the one sequence in which
\* every element follows all smaller ones
std_sort(q, less) ==
    [k \in 1..Len(q) |->
        q[CHOOSE i \in DOMAIN q :
            Cardinality({j \in DOMAIN q : less[q[j], q[i]]}) = k - 1]]

\* ---- types ---------------------------------------------------------------
\* mutant: a negative op code is taken for type 0
fu_type_from_opcode_negative_as_zero(op) ==
    IF op < 0 THEN 0
    ELSE IF op >= kTypes THEN op % kTypes
    ELSE op

fu_type_from_opcode(op) ==
    IF op < 0 THEN 1
    ELSE IF op >= kTypes THEN op % kTypes
    ELSE op

\* struct FU, default-initialised
FU(t) == [type |-> t, inst |-> 0, remaining |-> 0]

\* struct Inst as fetch_instructions leaves it
Inst(raw, tag, cycle) ==
    [raw |-> raw, tag |-> tag,
     fetch_c |-> cycle, disp_c |-> 0, sched_c |-> 0, exec_c |-> 0, state_c |-> 0,
     sched_ready_c |-> 0,
     src_ready |-> <<FALSE, FALSE>>, src_tag |-> <<-1, -1>>,
     issued |-> FALSE, waiting_bus |-> FALSE, enqueued_bus |-> FALSE,
     completion_c |-> 0,
     type |-> fu_type_from_opcode(raw.op_code), fu |-> 0]

\* proc_stats_t; a float is a fraction <<numerator, denominator>>, and a field
\* the simulator has not written yet holds Unset
Unset == -1
Zero == <<0, 1>>
Div(a, b) == <<a, b>>

\* ---- state ---------------------------------------------------------------
VARIABLES
    trace, trace_pos,                       \* the instruction source
    cfg,                                    \* the arguments given to setup_proc
    gF, gR, gK, gRS_cap,
    g_next_tag, g_trace_done, g_store,
    q_dispatch, rs, st_update, bus_wait,
    latch_fd_cur, latch_fd_nxt, latch_ds_cur, latch_ds_nxt,
    latch_se_cur, latch_se_nxt,
    reg_map, fu_pool,
    g_cycle, g_retired, g_issued_total, g_disp_q_sum, g_disp_q_max,
    cycle, fired,                           \* locals of run_proc
    assert_failed,                          \* the assert of start_executions fired
    p_stats,                                \* the caller's proc_stats_t
    pc                                      \* position in run_proc / complete_proc

vars ==
    <<trace, trace_pos, cfg, gF, gR, gK, gRS_cap, g_next_tag, g_trace_done, g_store,
      q_dispatch, rs, st_update, bus_wait, latch_fd_cur, latch_fd_nxt, latch_ds_cur,
      latch_ds_nxt, latch_se_cur, latch_se_nxt, reg_map, fu_pool, g_cycle, g_retired,
      g_issued_total, g_disp_q_sum, g_disp_q_max, cycle, fired, assert_failed,
      p_stats, pc>>

\* the simulator's globals (and the source) as one record, for the stage operators
Cur ==
    [trace |-> trace, trace_pos |-> trace_pos,
     gF |-> gF, gR |-> gR, gK |-> gK, gRS_cap |-> gRS_cap,
     g_next_tag |-> g_next_tag, g_trace_done |-> g_trace_done, g_store |-> g_store,
     q_dispatch |-> q_dispatch, rs |-> rs, st_update |-> st_update,
     bus_wait |-> bus_wait,
     latch_fd_cur |-> latch_fd_cur, latch_fd_nxt |-> latch_fd_nxt,
     latch_ds_cur |-> latch_ds_cur, latch_ds_nxt |-> latch_ds_nxt,
     latch_se_cur |-> latch_se_cur, latch_se_nxt |-> latch_se_nxt,
     reg_map |-> reg_map, fu_pool |-> fu_pool,
     g_cycle |-> g_cycle, g_retired |-> g_retired,
     g_issued_total |-> g_issued_total, g_disp_q_sum |-> g_disp_q_sum,
     g_disp_q_max |-> g_disp_q_max,
     fired |-> fired, assert_failed |-> assert_failed]

\* the globals take the values of record n
Commit(n) ==
    /\ trace' = n.trace /\ trace_pos' = n.trace_pos
    /\ gF' = n.gF /\ gR' = n.gR /\ gK' = n.gK /\ gRS_cap' = n.gRS_cap
    /\ g_next_tag' = n.g_next_tag /\ g_trace_done' = n.g_trace_done
    /\ g_store' = n.g_store
    /\ q_dispatch' = n.q_dispatch /\ rs' = n.rs /\ st_update' = n.st_update
    /\ bus_wait' = n.bus_wait
    /\ latch_fd_cur' = n.latch_fd_cur /\ latch_fd_nxt' = n.latch_fd_nxt
    /\ latch_ds_cur' = n.latch_ds_cur /\ latch_ds_nxt' = n.latch_ds_nxt
    /\ latch_se_cur' = n.latch_se_cur /\ latch_se_nxt' = n.latch_se_nxt
    /\ reg_map' = n.reg_map /\ fu_pool' = n.fu_pool
    /\ g_cycle' = n.g_cycle /\ g_retired' = n.g_retired
    /\ g_issued_total' = n.g_issued_total /\ g_disp_q_sum' = n.g_disp_q_sum
    /\ g_disp_q_max' = n.g_disp_q_max
    /\ fired' = n.fired /\ assert_failed' = n.assert_failed

\* ---- setup_proc ----------------------------------------------------------
setup_proc(tr, r, k0, k1, k2, f) ==
    [trace |-> tr, trace_pos |-> 0,
     gF |-> f,
     gR |-> IF r = 0 THEN 1 ELSE r,
     gK |-> <<k0, k1, k2>>,
     gRS_cap |-> 2 * (k0 + k1 + k2),
     g_next_tag |-> 1, g_trace_done |-> FALSE, g_store |-> <<>>,
     q_dispatch |-> <<>>, rs |-> <<>>, st_update |-> <<>>, bus_wait |-> <<>>,
     latch_fd_cur |-> <<>>, latch_fd_nxt |-> <<>>,
     latch_ds_cur |-> <<>>, latch_ds_nxt |-> <<>>,
     latch_se_cur |-> <<>>, latch_se_nxt |-> <<>>,
     reg_map |-> [x \in MappedRegs |-> -1],
     fu_pool |-> [i \in 1..(k0 + k1 + k2) |->
                    FU(IF i <= k0 THEN 0 ELSE IF i <= k0 + k1 THEN 1 ELSE 2)],
     g_cycle |-> 0, g_retired |-> 0, g_issued_total |-> 0,
     g_disp_q_sum |-> 0, g_disp_q_max |-> 0,
     fired |-> 0, assert_failed |-> FALSE]

\* number of FUs of type t, as setup_proc stored it in gK[t]
K(s, t) == s.gK[t + 1]

\* ---- utility -------------------------------------------------------------
\* mutant: the reservation station and the state-update set are not looked at
pipeline_empty_before_retire(s) ==
    /\ s.q_dispatch = <<>> /\ s.bus_wait = <<>>
    /\ s.latch_fd_cur = <<>> /\ s.latch_fd_nxt = <<>>
    /\ s.latch_ds_cur = <<>> /\ s.latch_ds_nxt = <<>>
    /\ s.latch_se_cur = <<>> /\ s.latch_se_nxt = <<>>
    /\ \A i \in DOMAIN s.fu_pool : s.fu_pool[i].inst = 0

pipeline_empty(s) ==
    /\ s.q_dispatch = <<>> /\ s.rs = <<>> /\ s.st_update = <<>> /\ s.bus_wait = <<>>
    /\ s.latch_fd_cur = <<>> /\ s.latch_fd_nxt = <<>>
    /\ s.latch_ds_cur = <<>> /\ s.latch_ds_nxt = <<>>
    /\ s.latch_se_cur = <<>> /\ s.latch_se_nxt = <<>>
    /\ \A i \in DOMAIN s.fu_pool : s.fu_pool[i].inst = 0

remove_from_rs(s, inst) == [s EXCEPT !.rs = RemoveFirst(@, inst)]

\* mutant: only the first source of each entry is woken
wakeup_rs_sources_first_only(s, producer) ==
    [s EXCEPT !.g_store =
        [w \in DOMAIN s.g_store |->
            IF w \in Range(s.rs) /\ ~s.g_store[w].src_ready[1]
                                 /\ s.g_store[w].src_tag[1] = producer
            THEN [s.g_store[w] EXCEPT !.src_ready[1] = TRUE, !.src_tag[1] = -1]
            ELSE s.g_store[w]]]

wakeup_rs_sources(s, producer) ==
    [s EXCEPT !.g_store =
        [w \in DOMAIN s.g_store |->
            IF w \in Range(s.rs)
            THEN LET woken == [x \in 1..2 |-> /\ ~s.g_store[w].src_ready[x]
                                              /\ s.g_store[w].src_tag[x] = producer]
                 IN [s.g_store[w] EXCEPT
                        !.src_ready = [x \in 1..2 |-> IF woken[x] THEN TRUE ELSE @[x]],
                        !.src_tag = [x \in 1..2 |-> IF woken[x] THEN -1 ELSE @[x]]]
            ELSE s.g_store[w]]]

\* index of the first idle FU of the type, 0 (nullptr) when there is none
find_free_fu(s, type) ==
    LET idle == {i \in DOMAIN s.fu_pool :
                    s.fu_pool[i].type = type /\ s.fu_pool[i].inst = 0}
    IN IF idle = {} THEN 0 ELSE CHOOSE i \in idle : \A j \in idle : i <= j

\* ---- FU lookahead --------------------------------------------------------
\* the candidates, in pool order: FUs whose instruction waits for the bus or
\* finishes at the next execute tick
RECURSIVE lookahead_candidates(_, _, _)
lookahead_candidates(s, cyc, i) ==
    IF i > Len(s.fu_pool) THEN <<>>
    ELSE LET fu == s.fu_pool[i]
             rest == lookahead_candidates(s, cyc, i + 1)
         IN IF fu.inst = 0 THEN rest
            ELSE IF s.g_store[fu.inst].waiting_bus
            THEN <<[inst |-> fu.inst, type |-> fu.type,
                    free_cycle |-> s.g_store[fu.inst].completion_c]>> \o rest
            ELSE IF fu.remaining = 1
            THEN <<[inst |-> fu.inst, type |-> fu.type, free_cycle |-> cyc + 1]>> \o rest
            ELSE rest

\* mutant: the candidates are ordered by tag alone
candidate_less_by_tag_only(s, a, b) == s.g_store[a.inst].tag < s.g_store[b.inst].tag

candidate_less(s, a, b) ==
    IF a.free_cycle = b.free_cycle
    THEN s.g_store[a.inst].tag < s.g_store[b.inst].tag
    ELSE a.free_cycle < b.free_cycle

\* the candidates the lookahead counts: the first min(gR, size) in sorted order
lookahead_grants(s, cyc) ==
    LET found == lookahead_candidates(s, cyc, 1)
        less == [a \in Range(found), b \in Range(found) |-> candidate_less(s, a, b)]
        candidates == std_sort(found, less)
        grant == Min(s.gR, Len(candidates))
    IN SubSeq(candidates, 1, grant)

\* mutant: every candidate is counted as freed, whatever the number of buses
projected_free_fus_all_granted(s, cyc) ==
    LET candidates == lookahead_candidates(s, cyc, 1)
    IN [t \in 0..(kTypes - 1) |->
          Cardinality({i \in DOMAIN s.fu_pool :
                          s.fu_pool[i].type = t /\ s.fu_pool[i].inst = 0})
          + Cardinality({i \in 1..Len(candidates) : candidates[i].type = t})]

projected_free_fus(s, cyc) ==
    LET granted == lookahead_grants(s, cyc)
    IN [t \in 0..(kTypes - 1) |->
          Cardinality({i \in DOMAIN s.fu_pool :
                          s.fu_pool[i].type = t /\ s.fu_pool[i].inst = 0})
          + Cardinality({i \in 1..Len(granted) : granted[i].type = t})]

\* ---- stage 5 -------------------------------------------------------------
RECURSIVE retire_loop(_, _)
retire_loop(s, todo) ==
    IF todo = <<>> THEN s
    ELSE LET inst == Head(todo)
             s1 == remove_from_rs(s, inst)
         IN retire_loop([s1 EXCEPT !.g_store[inst].issued = TRUE,
                                   !.g_retired = @ + 1],
                        Tail(todo))

retire_state_update(s) ==
    IF s.st_update = <<>> THEN s
    ELSE [retire_loop(s, s.st_update) EXCEPT !.st_update = <<>>]

\* ---- stage 4a ------------------------------------------------------------
\* mutant: the FU is freed as soon as its instruction has finished executing
RECURSIVE tick_loop_freeing_at_completion(_, _, _)
tick_loop_freeing_at_completion(s, cyc, i) ==
    IF i > Len(s.fu_pool) THEN s
    ELSE LET fu == s.fu_pool[i]
         IN IF fu.inst = 0 \/ ~(fu.remaining > 0)
            THEN tick_loop_freeing_at_completion(s, cyc, i + 1)
            ELSE LET s1 == [s EXCEPT !.fu_pool[i].remaining = @ - 1]
                     in == s.g_store[fu.inst]
                 IN IF s1.fu_pool[i].remaining = 0 /\ ~in.waiting_bus
                    THEN tick_loop_freeing_at_completion(
                           [s1 EXCEPT
                              !.g_store[fu.inst] =
                                  [@ EXCEPT !.completion_c = IF @ = 0 THEN cyc ELSE @,
                                            !.waiting_bus = TRUE,
                                            !.enqueued_bus = TRUE,
                                            !.fu = 0],
                              !.fu_pool[i].inst = 0,
                              !.bus_wait = IF in.enqueued_bus THEN @
                                           ELSE Append(@, fu.inst)],
                           cyc, i + 1)
                    ELSE tick_loop_freeing_at_completion(s1, cyc, i + 1)

RECURSIVE tick_loop(_, _, _)
tick_loop(s, cyc, i) ==
    IF i > Len(s.fu_pool) THEN s
    ELSE LET fu == s.fu_pool[i]
         IN IF fu.inst = 0 \/ ~(fu.remaining > 0) THEN tick_loop(s, cyc, i + 1)
            ELSE LET s1 == [s EXCEPT !.fu_pool[i].remaining = @ - 1]
                     in == s.g_store[fu.inst]
                 IN IF s1.fu_pool[i].remaining = 0 /\ ~in.waiting_bus
                    THEN tick_loop(
                           [s1 EXCEPT
                              !.g_store[fu.inst] =
                                  [@ EXCEPT !.completion_c = IF @ = 0 THEN cyc ELSE @,
                                            !.waiting_bus = TRUE,
                                            !.enqueued_bus = TRUE],
                              !.bus_wait = IF in.enqueued_bus THEN @
                                           ELSE Append(@, fu.inst)],
                           cyc, i + 1)
                    ELSE tick_loop(s1, cyc, i + 1)

tick_execute_units(s, cyc) == tick_loop(s, cyc, 1)

\* ---- stage 4b ------------------------------------------------------------
\* mutant: the waiting instructions are ordered by tag alone
bus_less_by_tag_only(s, a, b) == s.g_store[a].tag < s.g_store[b].tag

bus_less(s, a, b) ==
    IF s.g_store[a].completion_c = s.g_store[b].completion_c
    THEN s.g_store[a].tag < s.g_store[b].tag
    ELSE s.g_store[a].completion_c < s.g_store[b].completion_c

\* mutant: the instruction leaves the reservation station as it broadcasts
broadcast_one_retiring(s, cyc, inst) ==
    LET in == s.g_store[inst]
        d == in.raw.dest_reg
        s1 == [s EXCEPT !.g_store[inst] = [@ EXCEPT !.waiting_bus = FALSE,
                                                    !.enqueued_bus = FALSE,
                                                    !.fu = 0],
                        !.fu_pool = IF in.fu # 0
                                    THEN [@ EXCEPT ![in.fu] = [@ EXCEPT !.inst = 0,
                                                                        !.remaining = 0]]
                                    ELSE @]
        s2 == IF d >= 0 /\ d < kMaxRegs /\ s1.reg_map[d] = in.tag
              THEN [s1 EXCEPT !.reg_map[d] = -1]
              ELSE s1
        s3 == wakeup_rs_sources(s2, in.tag)
    IN [s3 EXCEPT !.g_store[inst].state_c = cyc, !.st_update = Append(@, inst),
                  !.rs = RemoveFirst(@, inst)]

\* mutant: the producer-table entry of the destination is cleared whoever owns it
broadcast_one_clearing_always(s, cyc, inst) ==
    LET in == s.g_store[inst]
        d == in.raw.dest_reg
        s1 == [s EXCEPT !.g_store[inst] = [@ EXCEPT !.waiting_bus = FALSE,
                                                    !.enqueued_bus = FALSE,
                                                    !.fu = 0],
                        !.fu_pool = IF in.fu # 0
                                    THEN [@ EXCEPT ![in.fu] = [@ EXCEPT !.inst = 0,
                                                                        !.remaining = 0]]
                                    ELSE @]
        s2 == IF d >= 0 /\ d < kMaxRegs
              THEN [s1 EXCEPT !.reg_map[d] = -1]
              ELSE s1
        s3 == wakeup_rs_sources(s2, in.tag)
    IN [s3 EXCEPT !.g_store[inst].state_c = cyc, !.st_update = Append(@, inst)]

\* what the loop body does to an instruction that is granted a bus
broadcast_one(s, cyc, inst) ==
    LET in == s.g_store[inst]
        d == in.raw.dest_reg
        s1 == [s EXCEPT !.g_store[inst] = [@ EXCEPT !.waiting_bus = FALSE,
                                                    !.enqueued_bus = FALSE,
                                                    !.fu = 0],
                        !.fu_pool = IF in.fu # 0
                                    THEN [@ EXCEPT ![in.fu] = [@ EXCEPT !.inst = 0,
                                                                        !.remaining = 0]]
                                    ELSE @]
        s2 == IF d >= 0 /\ d < kMaxRegs /\ s1.reg_map[d] = in.tag
              THEN [s1 EXCEPT !.reg_map[d] = -1]
              ELSE s1
        s3 == wakeup_rs_sources(s2, in.tag)
    IN [s3 EXCEPT !.g_store[inst].state_c = cyc, !.st_update = Append(@, inst)]

\* mutant: the comparison is off by one, so gR + 1 buses are granted
bus_exhausted_off_by_one(s, used) == used > s.gR

\* if (used >= gR): no bus is left for this instruction
bus_exhausted(s, used) == used >= s.gR

\* mutant: the instructions that got no bus are forgotten, not kept on bus_wait
RECURSIVE broadcast_loop_dropping_losers(_, _, _, _, _)
broadcast_loop_dropping_losers(s, cyc, ordered, used, remaining) ==
    IF ordered = <<>> THEN [s EXCEPT !.bus_wait = <<>>]
    ELSE IF bus_exhausted(s, used)
    THEN broadcast_loop_dropping_losers(s, cyc, Tail(ordered), used, remaining)
    ELSE broadcast_loop_dropping_losers(broadcast_one(s, cyc, Head(ordered)), cyc,
                                        Tail(ordered), used + 1, remaining)

RECURSIVE broadcast_loop(_, _, _, _, _)
broadcast_loop(s, cyc, ordered, used, remaining) ==
    IF ordered = <<>> THEN [s EXCEPT !.bus_wait = remaining]
    ELSE IF bus_exhausted(s, used)
    THEN broadcast_loop(s, cyc, Tail(ordered), used, Append(remaining, Head(ordered)))
    ELSE broadcast_loop(broadcast_one(s, cyc, Head(ordered)), cyc, Tail(ordered),
                        used + 1, remaining)

broadcast_results(s, cyc) ==
    IF s.bus_wait = <<>> THEN s
    ELSE LET less == [a \in Range(s.bus_wait), b \in Range(s.bus_wait) |->
                        bus_less(s, a, b)]
         IN broadcast_loop(s, cyc, std_sort(s.bus_wait, less), 0, <<>>)

\* ---- stage 4c ------------------------------------------------------------
\* a failed assert aborts the run: the loop stops at the instruction that
\* found no FU and the latch is left as it is
RECURSIVE start_loop(_, _, _)
start_loop(s, cyc, todo) ==
    IF todo = <<>> THEN [s EXCEPT !.latch_se_cur = <<>>]
    ELSE LET inst == Head(todo)
             fu == find_free_fu(s, s.g_store[inst].type)
         IN IF fu = 0 THEN [s EXCEPT !.assert_failed = TRUE]
            ELSE start_loop(
                   [s EXCEPT !.fu_pool[fu] =
                                 [@ EXCEPT !.inst = inst,
                                           !.remaining = kLatency[s.g_store[inst].type]],
                             !.g_store[inst] = [@ EXCEPT !.fu = fu, !.exec_c = cyc]],
                   cyc, Tail(todo))

start_executions(s, cyc) ==
    IF s.latch_se_cur = <<>> THEN s ELSE start_loop(s, cyc, s.latch_se_cur)

\* ---- stage 3a ------------------------------------------------------------
\* mutant: the producer table is not consulted, every source is ready at once
source_lookup_always_ready(s, r) == [ready |-> TRUE, tag |-> -1]

\* readiness and awaited tag of one source register under the current reg_map
source_lookup(s, r) ==
    IF r < 0 \/ r >= kMaxRegs THEN [ready |-> TRUE, tag |-> -1]
    ELSE IF s.reg_map[r] = -1 THEN [ready |-> TRUE, tag |-> -1]
    ELSE [ready |-> FALSE, tag |-> s.reg_map[r]]

\* mutant: an inserted entry may be issued from the next cycle on only
RECURSIVE insert_loop_ready_next_cycle(_, _, _)
insert_loop_ready_next_cycle(s, cyc, todo) ==
    IF todo = <<>> THEN [s EXCEPT !.latch_ds_cur = <<>>]
    ELSE LET inst == Head(todo)
             raw == s.g_store[inst].raw
             look == [x \in 1..2 |-> source_lookup(s, raw.src_reg[x])]
             d == raw.dest_reg
             s1 == [s EXCEPT !.g_store[inst] =
                        [@ EXCEPT !.sched_c = cyc,
                                  !.sched_ready_c = cyc + 1,
                                  !.src_ready = [x \in 1..2 |-> look[x].ready],
                                  !.src_tag = [x \in 1..2 |-> look[x].tag]]]
             s2 == IF d >= 0 /\ d < kMaxRegs
                   THEN [s1 EXCEPT !.reg_map[d] = s.g_store[inst].tag]
                   ELSE s1
         IN insert_loop_ready_next_cycle([s2 EXCEPT !.rs = Append(@, inst)], cyc,
                                         Tail(todo))

RECURSIVE insert_loop(_, _, _)
insert_loop(s, cyc, todo) ==
    IF todo = <<>> THEN [s EXCEPT !.latch_ds_cur = <<>>]
    ELSE LET inst == Head(todo)
             raw == s.g_store[inst].raw
             look == [x \in 1..2 |-> source_lookup(s, raw.src_reg[x])]
             d == raw.dest_reg
             s1 == [s EXCEPT !.g_store[inst] =
                        [@ EXCEPT !.sched_c = cyc,
                                  !.sched_ready_c = cyc,
                                  !.src_ready = [x \in 1..2 |-> look[x].ready],
                                  !.src_tag = [x \in 1..2 |-> look[x].tag]]]
             s2 == IF d >= 0 /\ d < kMaxRegs
                   THEN [s1 EXCEPT !.reg_map[d] = s.g_store[inst].tag]
                   ELSE s1
         IN insert_loop([s2 EXCEPT !.rs = Append(@, inst)], cyc, Tail(todo))

insert_into_rs(s, cyc) ==
    IF s.latch_ds_cur = <<>> THEN s ELSE insert_loop(s, cyc, s.latch_ds_cur)

\* ---- stage 2b ------------------------------------------------------------
move_into_dispatch(s, cyc) ==
    IF s.latch_fd_cur = <<>> THEN s
    ELSE [s EXCEPT !.g_store = [i \in DOMAIN @ |->
                                   IF i \in Range(s.latch_fd_cur)
                                   THEN [@[i] EXCEPT !.disp_c = cyc]
                                   ELSE @[i]],
                   !.q_dispatch = @ \o s.latch_fd_cur,
                   !.latch_fd_cur = <<>>]

\* ---- stage 3b ------------------------------------------------------------
\* mutant: the entries are considered youngest first
tag_less_youngest_first(s, a, b) == s.g_store[a].tag > s.g_store[b].tag

tag_less(s, a, b) == s.g_store[a].tag < s.g_store[b].tag

\* mutant: an entry is issued whether or not its sources are ready
RECURSIVE issue_loop_ignoring_sources(_, _, _, _, _)
issue_loop_ignoring_sources(s, cyc, ordered, free_next, reserved) ==
    IF ordered = <<>> THEN s
    ELSE LET inst == Head(ordered)
             in == s.g_store[inst]
             t == in.type
         IN IF \/ in.issued
               \/ cyc < in.sched_ready_c
               \/ free_next[t] - reserved[t] <= 0
            THEN issue_loop_ignoring_sources(s, cyc, Tail(ordered), free_next, reserved)
            ELSE issue_loop_ignoring_sources(
                    [s EXCEPT !.g_store[inst].issued = TRUE,
                              !.fired = @ + 1,
                              !.latch_se_nxt = Append(@, inst)],
                    cyc, Tail(ordered), free_next,
                    [reserved EXCEPT ![t] = @ + 1])

RECURSIVE issue_loop(_, _, _, _, _)
issue_loop(s, cyc, ordered, free_next, reserved) ==
    IF ordered = <<>> THEN s
    ELSE LET inst == Head(ordered)
             in == s.g_store[inst]
             t == in.type
         IN IF \/ in.issued
               \/ cyc < in.sched_ready_c
               \/ ~(in.src_ready[1] /\ in.src_ready[2])
               \/ free_next[t] - reserved[t] <= 0
            THEN issue_loop(s, cyc, Tail(ordered), free_next, reserved)
            ELSE issue_loop([s EXCEPT !.g_store[inst].issued = TRUE,
                                      !.fired = @ + 1,
                                      !.latch_se_nxt = Append(@, inst)],
                            cyc, Tail(ordered), free_next,
                            [reserved EXCEPT ![t] = @ + 1])

\* the value returned is left in s.fired
issue_ready(s, cyc) ==
    IF s.rs = <<>> THEN [s EXCEPT !.fired = 0]
    ELSE LET less == [a \in Range(s.rs), b \in Range(s.rs) |-> tag_less(s, a, b)]
         IN issue_loop([s EXCEPT !.fired = 0], cyc, std_sort(s.rs, less),
                       projected_free_fus(s, cyc), [t \in 0..(kTypes - 1) |-> 0])

\* ---- stage 2a ------------------------------------------------------------
\* mutant: the entries already placed in the latch this cycle are not counted
rs_full_ignoring_latch(s) == Len(s.rs) >= s.gRS_cap

\* if (rs.size() + latch_ds_nxt.size() >= gRS_cap) break;
rs_full(s) == Len(s.rs) + Len(s.latch_ds_nxt) >= s.gRS_cap

RECURSIVE dispatch_to_schedule(_)
dispatch_to_schedule(s) ==
    IF s.q_dispatch = <<>> THEN s
    ELSE IF rs_full(s) THEN s
    ELSE dispatch_to_schedule([s EXCEPT !.q_dispatch = Tail(@),
                                        !.latch_ds_nxt = Append(@, Head(s.q_dispatch))])

\* ---- stage 1 -------------------------------------------------------------
\* the instruction source: the next record of the trace, or EOF
read_instruction(s) ==
    IF s.trace_pos < Len(s.trace)
    THEN [ok |-> TRUE, raw |-> s.trace[s.trace_pos + 1],
          s |-> [s EXCEPT !.trace_pos = @ + 1]]
    ELSE [ok |-> FALSE, raw |-> Rec(0, 0, 0, 0), s |-> s]

RECURSIVE fetch_loop(_, _, _)
fetch_loop(s, cyc, i) ==
    IF ~(i < s.gF) THEN s
    ELSE LET rd == read_instruction(s)
         IN IF ~rd.ok THEN [s EXCEPT !.g_trace_done = TRUE]
            ELSE fetch_loop(
                   [rd.s EXCEPT !.g_next_tag = @ + 1,
                                !.latch_fd_nxt = Append(@, Len(s.g_store) + 1),
                                !.g_store = Append(@, Inst(rd.raw, s.g_next_tag, cyc))],
                   cyc, i + 1)

fetch_instructions(s, cyc) ==
    IF s.g_trace_done THEN s ELSE fetch_loop(s, cyc, 0)

\* ---- end of cycle --------------------------------------------------------
advance_latches(s) ==
    [s EXCEPT !.latch_fd_cur = s.latch_fd_nxt, !.latch_fd_nxt = <<>>,
              !.latch_ds_cur = s.latch_ds_nxt, !.latch_ds_nxt = <<>>,
              !.latch_se_cur = s.latch_se_nxt, !.latch_se_nxt = <<>>]

\* ---- run_proc and complete_proc, one action per stage call ----------------
\* (both are called with a valid p_stats; with a null pointer they return at
\* once and touch nothing)
\* stage op takes the globals from pc = from to pc = to
Stage(from, to, n) ==
    /\ pc = from
    /\ pc' = to
    /\ Commit(n)
    /\ UNCHANGED <<cfg, cycle, p_stats>>

\* while (!g_trace_done || !pipeline_empty()) { cycle++; ...
LoopTest ==
    /\ pc = "loop"
    /\ IF ~g_trace_done \/ ~pipeline_empty(Cur)
       THEN /\ cycle < MaxCycle
            /\ cycle' = cycle + 1
            /\ pc' = "retire"
       ELSE /\ cycle' = cycle
            /\ pc' = "exit"
    /\ Commit(Cur)
    /\ UNCHANGED <<cfg, p_stats>>

Retire == \E n \in {retire_state_update(Cur)} : Stage("retire", "tick", n)

TickExecute == \E n \in {tick_execute_units(Cur, cycle)} : Stage("tick", "broadcast", n)

Broadcast == \E n \in {broadcast_results(Cur, cycle)} : Stage("broadcast", "start", n)

StartExecute ==
    \E n \in {start_executions(Cur, cycle)} :
        Stage("start", IF n.assert_failed THEN "aborted" ELSE "insert", n)

InsertRS == \E n \in {insert_into_rs(Cur, cycle)} : Stage("insert", "move", n)

MoveIntoDispatch == \E n \in {move_into_dispatch(Cur, cycle)} : Stage("move", "sample", n)

\* the dispatch-queue statistics of run_proc
sample_dispatch_queue(s) ==
    [s EXCEPT !.g_disp_q_sum = @ + Len(s.q_dispatch),
              !.g_disp_q_max = Max(@, Len(s.q_dispatch))]

Sample == \E n \in {sample_dispatch_queue(Cur)} : Stage("sample", "issue", n)

\* mutant: the instructions fired are not added to the running total
issue_and_count_dropped(s, cyc) == issue_ready(s, cyc)

\* size_t fired = issue_ready(cycle); g_issued_total += fired;
issue_and_count(s, cyc) ==
    LET s1 == issue_ready(s, cyc) IN [s1 EXCEPT !.g_issued_total = @ + s1.fired]

Issue == \E n \in {issue_and_count(Cur, cycle)} : Stage("issue", "dispatch", n)

Dispatch == \E n \in {dispatch_to_schedule(Cur)} : Stage("dispatch", "fetch", n)

Fetch == \E n \in {fetch_instructions(Cur, cycle)} : Stage("fetch", "advance", n)

AdvanceLatches == \E n \in {advance_latches(Cur)} : Stage("advance", "loop", n)

\* the statements of run_proc after the loop
RunExit ==
    /\ pc = "exit"
    /\ pc' = "complete"
    /\ IF g_next_tag = 1
       THEN /\ p_stats' = [p_stats EXCEPT !.cycle_count = 0, !.retired_instruction = 0]
            /\ cycle' = cycle
            /\ Commit(Cur)
       ELSE /\ cycle' = IF cycle > 0 THEN cycle - 1 ELSE cycle
            /\ Commit([Cur EXCEPT !.g_cycle = cycle'])
            /\ p_stats' = [p_stats EXCEPT !.cycle_count = cycle',
                                          !.retired_instruction = g_retired]
    /\ UNCHANGED cfg

\* mutant: the division is not guarded against a cycle count of zero
complete_proc_unguarded(st) ==
    [st EXCEPT !.avg_inst_fired = Div(g_issued_total, st.cycle_count),
               !.avg_inst_retired = Div(st.retired_instruction, st.cycle_count),
               !.avg_disp_size = Div(g_disp_q_sum, st.cycle_count),
               !.max_disp_size = g_disp_q_max]

complete_proc(st) ==
    IF st.cycle_count = 0
    THEN [st EXCEPT !.avg_inst_fired = Zero, !.avg_inst_retired = Zero,
                    !.avg_disp_size = Zero, !.max_disp_size = 0]
    ELSE [st EXCEPT !.avg_inst_fired = Div(g_issued_total, st.cycle_count),
                    !.avg_inst_retired = Div(st.retired_instruction, st.cycle_count),
                    !.avg_disp_size = Div(g_disp_q_sum, st.cycle_count),
                    !.max_disp_size = g_disp_q_max]

CompleteProc ==
    /\ pc = "complete"
    /\ pc' = "done"
    /\ p_stats' = complete_proc(p_stats)
    /\ Commit(Cur)
    /\ UNCHANGED <<cfg, cycle>>

\* ---- run_proc as one function ---------------------------------------------
\* the body of the driver loop: one tick, the stages in the loop's order
run_tick(s, cyc) ==
    LET retired == retire_state_update(s)
        ticked == tick_execute_units(retired, cyc)
        broadcast == broadcast_results(ticked, cyc)
        started == start_executions(broadcast, cyc)
        inserted == insert_into_rs(started, cyc)
        moved == move_into_dispatch(inserted, cyc)
        sampled == sample_dispatch_queue(moved)
        issued == issue_and_count(sampled, cyc)
        dispatched == dispatch_to_schedule(issued)
        fetched == fetch_instructions(dispatched, cyc)
    IN advance_latches(fetched)

\* the driver loop from the globals s with the local cycle = cyc; the result is
\* the globals and the cycle at the loop's exit. A run whose assert fails, or
\* that has not left the loop after MaxCycle ticks, has no result (ended FALSE)
RECURSIVE run_loop(_, _)
run_loop(s, cyc) ==
    IF s.assert_failed THEN [ended |-> FALSE, s |-> s, cycle |-> cyc]
    ELSE IF ~s.g_trace_done \/ ~pipeline_empty(s)
    THEN IF cyc < MaxCycle
         THEN run_loop(run_tick(s, cyc + 1), cyc + 1)
         ELSE [ended |-> FALSE, s |-> s, cycle |-> cyc]
    ELSE [ended |-> TRUE, s |-> s, cycle |-> cyc]

\* what run_proc writes to p_stats when called after setup_proc(r, k0, k1, k2, f)
\* on the trace tr
run_proc(tr, r, k0, k1, k2, f) ==
    LET out == run_loop(setup_proc(tr, r, k0, k1, k2, f), 0)
    IN IF out.s.g_next_tag = 1
       THEN [ended |-> out.ended, cycle_count |-> 0, retired_instruction |-> 0]
       ELSE [ended |-> out.ended,
             cycle_count |-> IF out.cycle > 0 THEN out.cycle - 1 ELSE out.cycle,
             retired_instruction |-> out.s.g_retired]

\* ---- the specification ----------------------------------------------------
\* the state after setup_proc, for every trace and configuration of the bounds
Init ==
    \E tr \in Traces, r \in 0..MaxR, k0 \in 1..MaxK0, k1 \in 0..MaxK,
       k2 \in 0..MaxK, f \in 1..MaxF :
        /\ cfg = [r |-> r, k |-> <<k0, k1, k2>>, f |-> f]
        /\ \E n \in {setup_proc(tr, r, k0, k1, k2, f)} :
            /\ trace = n.trace /\ trace_pos = n.trace_pos
            /\ gF = n.gF /\ gR = n.gR /\ gK = n.gK /\ gRS_cap = n.gRS_cap
            /\ g_next_tag = n.g_next_tag /\ g_trace_done = n.g_trace_done
            /\ g_store = n.g_store
            /\ q_dispatch = n.q_dispatch /\ rs = n.rs /\ st_update = n.st_update
            /\ bus_wait = n.bus_wait
            /\ latch_fd_cur = n.latch_fd_cur /\ latch_fd_nxt = n.latch_fd_nxt
            /\ latch_ds_cur = n.latch_ds_cur /\ latch_ds_nxt = n.latch_ds_nxt
            /\ latch_se_cur = n.latch_se_cur /\ latch_se_nxt = n.latch_se_nxt
            /\ reg_map = n.reg_map /\ fu_pool = n.fu_pool
            /\ g_cycle = n.g_cycle /\ g_retired = n.g_retired
            /\ g_issued_total = n.g_issued_total /\ g_disp_q_sum = n.g_disp_q_sum
            /\ g_disp_q_max = n.g_disp_q_max
            /\ fired = n.fired /\ assert_failed = n.assert_failed
        /\ cycle = 0
        /\ p_stats = [cycle_count |-> Unset, retired_instruction |-> Unset,
                      avg_inst_fired |-> Div(Unset, Unset),
                      avg_inst_retired |-> Div(Unset, Unset),
                      avg_disp_size |-> Div(Unset, Unset), max_disp_size |-> Unset]
        /\ pc = "loop"

Next ==
    \/ LoopTest
    \/ Retire
    \/ TickExecute
    \/ Broadcast
    \/ StartExecute
    \/ InsertRS
    \/ MoveIntoDispatch
    \/ Sample
    \/ Issue
    \/ Dispatch
    \/ Fetch
    \/ AdvanceLatches
    \/ RunExit
    \/ CompleteProc

Spec == Init /\ [][Next]_vars

\* ---- derived notions used by the properties --------------------------------
Tags == DOMAIN g_store
TypeIds == 0..(kTypes - 1)

\* the FUs that hold an instruction of type t
HeldFUs(t) ==
    {i \in DOMAIN fu_pool : fu_pool[i].inst # 0 /\ g_store[fu_pool[i].inst].type = t}

\* the configured number of result buses, 0 counting as 1
EffectiveR == IF cfg.r = 0 THEN 1 ELSE cfg.r

\* the capacity of the reservation station, from the configured FU counts
RSCapacity == 2 * (cfg.k[1] + cfg.k[2] + cfg.k[3])

\* instruction i has been broadcast (state_c is written by the broadcast only)
HasBroadcast(i) == g_store[i].state_c # 0

\* instruction i has been in the reservation station and was removed from it
Retired(i) == HasBroadcast(i) /\ i \notin Range(rs) /\ i \notin Range(st_update)

\* the driver loop has not been left: cycle is the number of the current tick
InLoop == pc \notin {"complete", "done"}

\* ---- C1 -------------------------------------------------------------------
\* C1: issue never oversubscribes execute. The assert of start_executions never
\* fails (every instruction taken from the schedule->execute latch finds an
\* idle FU of its type), and at most Kt instructions of type t are held in FUs.
C1_NoOversubscription ==
    /\ ~assert_failed
    /\ pc # "aborted"
    /\ \A t \in TypeIds : Cardinality(HeldFUs(t)) <= cfg.k[t + 1]

\* start-execute has just placed an instruction on an FU that the broadcast of
\* this very cycle freed, while another instruction still waits for a bus
C1_Witness ==
    /\ pc = "insert"
    /\ bus_wait # <<>>
    /\ \E i \in Tags, j \in Range(st_update) :
        /\ g_store[i].exec_c = cycle
        /\ g_store[j].state_c = cycle
        /\ g_store[i].type = g_store[j].type
        /\ Cardinality(HeldFUs(g_store[i].type)) = cfg.k[g_store[i].type + 1]

\* ---- C3 -------------------------------------------------------------------
\* C3: the reservation station never holds more than 2*(K0+K1+K2) entries,
\* broadcast entries not yet removed included; the entries on their way to it
\* in the dispatch->schedule latch are counted against the same capacity.
C3_RSBounded ==
    /\ Len(rs) <= RSCapacity
    /\ Len(rs) + Len(latch_ds_cur) + Len(latch_ds_nxt) <= RSCapacity

\* the reservation station is full and an instruction is held back in the
\* dispatch queue
C3_Witness ==
    /\ pc = "fetch"
    /\ Len(rs) = RSCapacity
    /\ q_dispatch # <<>>

\* ---- C5 -------------------------------------------------------------------
\* C5: between any two stage functions, a source of a reservation-station
\* entry that is marked not ready awaits the tag of an instruction that is in
\* the reservation station and has not broadcast yet.
C5_AwaitedProducerInFlight ==
    \A w \in Range(rs) : \A x \in 1..2 :
        ~g_store[w].src_ready[x] =>
            \E q \in Range(rs) :
                /\ g_store[q].tag = g_store[w].src_tag[x]
                /\ ~HasBroadcast(q)

\* an entry waits for two different producers, one of which has finished
\* executing and waits for a bus
C5_Witness ==
    \E w \in Range(rs) :
        /\ ~g_store[w].src_ready[1]
        /\ ~g_store[w].src_ready[2]
        /\ g_store[w].src_tag[1] # g_store[w].src_tag[2]
        /\ \E x \in 1..2 : g_store[w].src_tag[x] \in Range(bus_wait)

\* ---- C7 -------------------------------------------------------------------
\* C7: at the end of every tick, retired <= issued <= fetched.
C7_CountersOrdered ==
    pc = "loop" => /\ g_retired <= g_issued_total
                   /\ g_issued_total <= g_next_tag - 1

\* a tick ends with some instructions retired, more issued, and more fetched
C7_Witness ==
    /\ pc = "loop"
    /\ 0 < g_retired
    /\ g_retired < g_issued_total
    /\ g_issued_total < g_next_tag - 1

\* ---- C2 -------------------------------------------------------------------
\* the fetch width is at least 1 and every FU type of the trace has an FU
ValidRun ==
    /\ cfg.f >= 1
    /\ \A i \in DOMAIN trace : cfg.k[fu_type_from_opcode(trace[i].op_code) + 1] >= 1

\* every record of the trace has been fetched, issued and retired
AllRetired ==
    /\ g_trace_done /\ pipeline_empty(Cur)
    /\ trace_pos = Len(trace)
    /\ g_next_tag - 1 = Len(trace)
    /\ g_issued_total = Len(trace)
    /\ g_retired = Len(trace)
    /\ \A i \in Tags : g_store[i].issued /\ Retired(i)

\* the loop of run_proc is about to start one more tick
LoopContinues == pc = "loop" /\ (~g_trace_done \/ ~pipeline_empty(Cur))

\* C2: when F >= 1 and every FU type that occurs in the trace has at least one
\* FU, the run terminates, and at termination fetched = issued = retired = the
\* number N of records. Termination is stated with its bound: the run is never
\* aborted, and the loop is left after at most TickBound(N) ticks with the
\* pipeline empty (every stage is one step that is always possible, so the loop
\* test is the only place where a run can go on for ever).
C2_RunCompletes ==
    ValidRun =>
        /\ pc # "aborted"
        /\ LoopContinues => cycle < TickBound(Len(trace))
        /\ pc \in {"exit", "complete", "done"} => AllRetired
        /\ pc \in {"complete", "done"} => p_stats.retired_instruction = Len(trace)

\* a run of MaxLen records has ended although one FU type has no FU at all
C2_Witness ==
    /\ ValidRun
    /\ pc = "done"
    /\ AllRetired
    /\ Len(trace) = MaxLen
    /\ \E t \in TypeIds : cfg.k[t + 1] = 0

\* ---- C4 -------------------------------------------------------------------
\* the instructions that leave bus_wait in a step
LeavingBus == Range(bus_wait) \ Range(bus_wait')

\* C4: only the broadcast stage takes instructions off bus_wait, at most R of
\* them per cycle (R the configured CDB width, 0 counting as 1); those taken are
\* the ones moved to the state-update set, all others stay on bus_wait.
C4_BusWidth ==
    [][/\ Cardinality(LeavingBus) <= (IF pc = "broadcast" THEN EffectiveR ELSE 0)
       /\ pc = "broadcast" =>
            /\ Range(st_update') \ Range(st_update) = LeavingBus
            /\ Range(bus_wait') = Range(bus_wait) \ LeavingBus
            /\ Len(bus_wait') = Len(bus_wait) - Cardinality(LeavingBus)]_vars

\* with a configured width of 0, one instruction has just been broadcast and
\* another one was left on bus_wait
C4_Witness ==
    /\ pc = "start"
    /\ cfg.r = 0
    /\ Len(st_update) = 1
    /\ bus_wait # <<>>

\* ---- C6 -------------------------------------------------------------------
\* C6 as claimed: an instruction enters state-update at least one cycle after
\* the cycle in which its execution completed.
C6_AsClaimed ==
    \A i \in Tags :
        HasBroadcast(i) => g_store[i].state_c >= g_store[i].completion_c + 1

\* C6 amended: an instruction enters state-update no earlier than the cycle in
\* which its execution completed (state_c >= completion_c, and completion_c is
\* at least one cycle after exec_c); it stays in the reservation station for the
\* rest of cycle state_c and is removed by the retire step of cycle state_c + 1.
\* (cycle is compared inside the loop only: run_proc decrements it afterwards.)
C6_RetiresCycleAfterBroadcast ==
    \A i \in Tags :
        HasBroadcast(i) =>
            /\ g_store[i].state_c >= g_store[i].completion_c
            /\ g_store[i].completion_c >= g_store[i].exec_c + 1
            /\ (InLoop /\ i \notin Range(rs)) => cycle >= g_store[i].state_c + 1
            /\ (InLoop /\ cycle > g_store[i].state_c /\ pc # "retire")
                    => i \notin Range(rs)

\* one instruction was broadcast in the cycle it completed and has retired,
\* another one had to wait for a bus
C6_Witness ==
    \E i \in Tags, j \in Tags :
        /\ Retired(i)
        /\ g_store[i].state_c = g_store[i].completion_c
        /\ HasBroadcast(j)
        /\ g_store[j].state_c > g_store[j].completion_c

\* ---- C8 -------------------------------------------------------------------
\* C8: a trace of one type-0 instruction without registers, with F >= 1 and
\* K0 >= 1: the loop runs exactly 6 ticks, and run reports cycle_count = 5 and
\* retired_instruction = 1.
C8_SingleInstruction ==
    (trace = SingleTrace /\ cfg.f >= 1 /\ cfg.k[1] >= 1) =>
        /\ cycle <= 6
        /\ (pc = "loop" /\ cycle < 6) => ~(g_trace_done /\ pipeline_empty(Cur))
        /\ (pc = "loop" /\ cycle = 6) => (g_trace_done /\ pipeline_empty(Cur))
        /\ pc \in {"complete", "done"} =>
            /\ p_stats.cycle_count = 5
            /\ p_stats.retired_instruction = 1

\* the run of the single instruction has ended
C8_Witness ==
    /\ trace = SingleTrace
    /\ pc = "done"
    /\ g_store[1].state_c = 5

\* ---- C9 -------------------------------------------------------------------
RAWConfig == [r |-> 1, k |-> <<1, 1, 1>>, f |-> 1]

\* C9: the two-instruction read-after-write trace with F = 1, R = 1,
\* K = (1,1,1): run reports cycle_count = 7 and retired_instruction = 2.
C9_RAWScenario ==
    (trace = RAWTrace /\ cfg = RAWConfig) =>
        /\ cycle <= 8
        /\ (pc = "loop" /\ cycle < 8) => ~(g_trace_done /\ pipeline_empty(Cur))
        /\ pc \in {"complete", "done"} =>
            /\ p_stats.cycle_count = 7
            /\ p_stats.retired_instruction = 2

\* the run of the scenario has ended, the second instruction having waited
\* for the first
C9_Witness ==
    /\ trace = RAWTrace
    /\ cfg = RAWConfig
    /\ pc = "done"
    /\ g_store[2].exec_c > g_store[1].state_c

\* ---- C10 ------------------------------------------------------------------
\* C10: an empty trace gives all-zero statistics under every configuration,
\* after a single tick of the driver loop.
C10_EmptyTrace ==
    trace = <<>> =>
        /\ cycle <= 1
        /\ pc = "exit" => cycle = 1
        /\ pc \in {"complete", "done"} =>
            /\ p_stats.cycle_count = 0
            /\ p_stats.retired_instruction = 0
        /\ pc = "done" =>
            /\ p_stats.max_disp_size = 0
            /\ p_stats.avg_inst_fired = Zero
            /\ p_stats.avg_inst_retired = Zero
            /\ p_stats.avg_disp_size = Zero

\* run_proc and complete_proc have returned on an empty trace
C10_Witness ==
    /\ trace = <<>>
    /\ pc = "done"
    /\ cycle = 1

\* ---- C11 ------------------------------------------------------------------
\* the trace has a record with a negative op code and there is no FU of type 1
NoUnitForNegativeOp ==
    /\ cfg.k[2] = 0
    /\ \E i \in DOMAIN trace : trace[i].op_code < 0

\* the places of the pipeline an instruction is in before it is issued
AwaitingIssue(i) ==
    \/ i \in Range(latch_fd_nxt) \/ i \in Range(latch_fd_cur)
    \/ i \in Range(q_dispatch)
    \/ i \in Range(latch_ds_nxt) \/ i \in Range(latch_ds_cur)
    \/ i \in Range(rs)

\* C11: when the trace has an instruction with op_code < 0 and K1 = 0, that
\* instruction is never issued (once fetched it stays, unissued, in front of or
\* in the reservation station and never reaches an FU), no assertion fires,
\* the pipeline never becomes empty once the trace is read, and the loop of
\* run_proc is never left.
C11_NoUnitDeadlock ==
    NoUnitForNegativeOp =>
        /\ \A i \in Tags :
            g_store[i].raw.op_code < 0 =>
                /\ ~g_store[i].issued
                /\ AwaitingIssue(i)
                /\ g_store[i].exec_c = 0 /\ g_store[i].fu = 0
                /\ i \notin Range(latch_se_nxt) /\ i \notin Range(latch_se_cur)
        /\ ~assert_failed
        /\ ~(g_trace_done /\ pipeline_empty(Cur))
        /\ pc \notin {"exit", "complete", "done", "aborted"}

\* the loop has run MaxCycle ticks; the instruction without a unit sits in the
\* reservation station with both sources ready, and an older instruction of
\* another type has retired
C11_Witness ==
    /\ NoUnitForNegativeOp
    /\ pc = "loop"
    /\ cycle = MaxCycle
    /\ g_retired > 0
    /\ \E i \in Range(rs) :
        /\ g_store[i].raw.op_code < 0
        /\ g_store[i].src_ready = <<TRUE, TRUE>>
        /\ g_store[i].sched_ready_c < cycle

\* ---- C12 ------------------------------------------------------------------
\* by how much one parameter of the second configuration exceeds the first's
MaxRaise == 2

\* the configurations that differ from c in one of R, F, K0, K1, K2 only, that
\* one being larger
RaisedConfigs(c) ==
    UNION {
        {[c EXCEPT !.r = @ + d], [c EXCEPT !.f = @ + d],
         [c EXCEPT !.k[1] = @ + d], [c EXCEPT !.k[2] = @ + d],
         [c EXCEPT !.k[3] = @ + d]} : d \in 1..MaxRaise}

\* the statistics run_proc reports for the trace under configuration c
StatsUnder(c) == run_proc(trace, c.r, c.k[1], c.k[2], c.k[3], c.f)

\* a configuration that monotonicity is stated for: F >= 1 and an FU of every type
Terminating(c) == c.f >= 1 /\ \A t \in TypeIds : c.k[t + 1] >= 1

\* C12 as claimed: monotonicity. When a run under a configuration with F >= 1
\* and every Kt >= 1 has ended, the run of the same trace under any
\* configuration that differs only in one larger R, F, K0, K1 or K2 reports a
\* cycle_count that is not greater.
C12_AsClaimed ==
    (pc = "done" /\ Terminating(cfg)) =>
        \A c2 \in RaisedConfigs(cfg) :
            StatsUnder(c2).cycle_count <= p_stats.cycle_count

\* C12 amended: under both configurations the run ends and retires every
\* record of the trace, so retired_instruction is the same; cycle_count is not
\* ordered by the configurations (ContendedTrace with R = 2, F = 3, K = (1,1,1)
\* takes 6 cycles and 7 with K0 = 2: three results then complete in one cycle,
\* and the younger type-2 result loses the arbitration and keeps its FU).
C12_RaisedRunCompletes ==
    (pc = "done" /\ Terminating(cfg)) =>
        \A c2 \in RaisedConfigs(cfg) :
            LET second == StatsUnder(c2)
            IN /\ second.ended
               /\ second.retired_instruction = p_stats.retired_instruction
               /\ second.retired_instruction = Len(trace)

\* a run has ended, and with one more FU of type 0 the run of the same trace
\* ends too, retires as many instructions, and takes one cycle more
C12_Witness ==
    /\ pc = "done"
    /\ Terminating(cfg)
    /\ LET second == StatsUnder([cfg EXCEPT !.k[1] = @ + 1])
       IN /\ second.ended
          /\ second.retired_instruction = p_stats.retired_instruction
          /\ second.cycle_count = p_stats.cycle_count + 1

\* ---- C13 ------------------------------------------------------------------
\* the globals at the moment start-execute begins in the cycle after cyc, when
\* issue is about to run in cycle cyc with the globals s: the rest of this
\* tick, then retire, execute tick and broadcast of the next one
AtNextStart(s, cyc) ==
    LET issued == issue_and_count(s, cyc)
        dispatched == dispatch_to_schedule(issued)
        fetched == fetch_instructions(dispatched, cyc)
        advanced == advance_latches(fetched)
        retired == retire_state_update(advanced)
        ticked == tick_execute_units(retired, cyc + 1)
    IN broadcast_results(ticked, cyc + 1)

\* the idle FUs of type t in the globals s
IdleFUs(s, t) == {i \in DOMAIN s.fu_pool : s.fu_pool[i].type = t /\ s.fu_pool[i].inst = 0}

\* C13: the FU lookahead is exact. In every cycle c, the free count that issue
\* projects for type t equals the number of idle FUs of type t when
\* start-execute begins in cycle c + 1, and the candidates the lookahead counts
\* are exactly the instructions that are granted a bus in cycle c + 1.
C13_LookaheadExact ==
    pc = "issue" =>
        LET next == AtNextStart(Cur, cycle)
            granted == lookahead_grants(Cur, cycle)
        IN /\ \A t \in TypeIds :
                projected_free_fus(Cur, cycle)[t] = Cardinality(IdleFUs(next, t))
           /\ {granted[i].inst : i \in DOMAIN granted} = Range(next.st_update)

\* issue runs while one instruction waits for a bus it was refused and an
\* older one, of another type, is executing: both are candidates, one bus
C13_Witness ==
    /\ pc = "issue"
    /\ gR = 1
    /\ \E i \in Range(bus_wait), j \in Tags :
        /\ j < i
        /\ g_store[j].fu # 0 /\ ~g_store[j].waiting_bus
        /\ g_store[i].type # g_store[j].type

\* ---- C14 ------------------------------------------------------------------
\* both sources of instruction i are ready
SourcesReady(i) == g_store[i].src_ready[1] /\ g_store[i].src_ready[2]

\* entry i of the reservation station passes the tests of issue_ready that
\* come before the FU test
Eligible(i) ==
    /\ i \in Range(rs)
    /\ ~g_store[i].issued
    /\ cycle >= g_store[i].sched_ready_c
    /\ SourcesReady(i)

\* this step is the broadcast and wakes the last unready source of entry i
WokenNow(i) ==
    /\ pc = "broadcast"
    /\ i \in Range(rs)
    /\ ~SourcesReady(i)
    /\ g_store'[i].src_ready[1] /\ g_store'[i].src_ready[2]

\* this step inserts i into the reservation station with both sources ready
InsertedReady(i) ==
    /\ pc = "insert"
    /\ i \notin Range(rs) /\ i \in Range(rs')
    /\ g_store'[i].src_ready[1] /\ g_store'[i].src_ready[2]

\* the entries that this step issues
IssuedNow == {j \in Tags : ~g_store[j].issued /\ j \in Range(latch_se_nxt')}

\* the FUs projected free for the type of i are all taken by entries that are
\* older than i and issued in this step
ReservedByOlder(i) ==
    Cardinality({j \in IssuedNow : j < i /\ g_store[j].type = g_store[i].type})
        >= projected_free_fus(Cur, cycle)[g_store[i].type]

\* C14: same-cycle wake-up and issue. An entry whose last unready source is
\* woken by the broadcast of cycle c, or that is inserted in cycle c with both
\* sources ready, is eligible at once and stays so until issue runs in the same
\* cycle; issue then issues every eligible entry unless the FUs projected free
\* for its type are all reserved by older entries.
C14_SameCycleIssue ==
    [][/\ \A i \in Tags :
            (WokenNow(i) \/ InsertedReady(i)) => Eligible(i)'
       /\ pc \in {"start", "insert", "move", "sample"} =>
            /\ cycle' = cycle
            /\ \A i \in Tags : Eligible(i) => Eligible(i)'
       /\ pc = "issue" =>
            \A i \in Tags :
                Eligible(i) =>
                    \/ g_store'[i].issued /\ i \in IssuedNow
                    \/ ReservedByOlder(i)]_vars

\* issue has just issued an entry that was inserted in an earlier cycle and
\* whose producer broadcast in this cycle, and another one that was inserted in
\* this cycle
C14_Witness ==
    /\ pc = "dispatch"
    /\ \E i \in Range(latch_se_nxt), j \in Range(st_update) :
        /\ g_store[i].sched_c < cycle
        /\ g_store[j].state_c = cycle
        /\ j < i
        /\ g_store[j].raw.dest_reg \in Range(g_store[i].raw.src_reg)
        /\ g_store[j].raw.dest_reg >= 0
    /\ \E i \in Range(latch_se_nxt) : g_store[i].sched_c = cycle

\* ---- C15 ------------------------------------------------------------------
\* the run is the read-after-write scenario and issue_ready has issued the
\* second instruction in the current cycle (an issued instruction is in the
\* schedule->execute latch until the latches advance at the end of the tick)
RAWSecondIssuedNow ==
    /\ trace = RAWTrace
    /\ cfg = RAWConfig
    /\ 2 \in Range(latch_se_nxt)

\* C15 as claimed: in the read-after-write scenario the second instruction is
\* issued exactly one cycle after the cycle in which the first broadcasts.
C15_AsClaimed ==
    RAWSecondIssuedNow =>
        /\ HasBroadcast(1)
        /\ cycle = g_store[1].state_c + 1

\* C15 amended: the second instruction is issued in the very cycle in which
\* the first broadcasts (cycle 5: the broadcast wakes it and issue runs later in
\* the same tick), and it starts executing exactly one cycle after that cycle.
C15_IssuedInBroadcastCycle ==
    (trace = RAWTrace /\ cfg = RAWConfig) =>
        /\ RAWSecondIssuedNow =>
            /\ HasBroadcast(1)
            /\ cycle = g_store[1].state_c
            /\ cycle = 5
        /\ (2 \in Tags /\ g_store[2].issued) => HasBroadcast(1)
        /\ (2 \in Tags /\ g_store[2].exec_c # 0) =>
                g_store[2].exec_c = g_store[1].state_c + 1

\* the second instruction of the scenario has just been issued, the first
\* being in the state-update set
C15_Witness ==
    /\ RAWSecondIssuedNow
    /\ pc = "dispatch"
    /\ 1 \in Range(st_update)

\* ---- C16 ------------------------------------------------------------------
\* instruction a precedes b in the order (completion_c ascending, then tag)
PrecedesOnBus(a, b) ==
    \/ g_store[a].completion_c < g_store[b].completion_c
    \/ /\ g_store[a].completion_c = g_store[b].completion_c
       /\ g_store[a].tag < g_store[b].tag

\* C16: CDB arbitration order. In every broadcast step each instruction that
\* is granted a bus precedes, in the order (completion_c, tag), every
\* instruction that is left on bus_wait.
C16_ArbitrationOrder ==
    [][pc = "broadcast" =>
        \A g \in LeavingBus : \A l \in Range(bus_wait') :
            /\ PrecedesOnBus(g, l)
            /\ ~PrecedesOnBus(l, g)
            /\ g_store'[g].state_c = cycle
            /\ g_store'[l].state_c = 0]_vars

\* the broadcast has just granted the bus to an instruction that completed in
\* an earlier cycle and left an older instruction, which completed in this
\* cycle, on bus_wait
C16_Witness ==
    /\ pc = "start"
    /\ \E g \in Range(st_update), l \in Range(bus_wait) :
        /\ g_store[g].state_c = cycle
        /\ g_store[g].tag > g_store[l].tag
        /\ g_store[g].completion_c < g_store[l].completion_c
        /\ g_store[l].completion_c = cycle

\* ---- C17 ------------------------------------------------------------------
\* the instructions marked issued
IssuedSet(store) == {j \in DOMAIN store : store[j].issued}

\* C17: issue is oldest-first per FU type, and no instruction is issued twice.
\* When the issue step issues an instruction of type t, it also issues every
\* reservation-station entry of type t with a smaller tag that is unissued and
\* has both sources ready. Only the issue step puts instructions into the
\* schedule->execute latch, only unissued ones and each once; an issued
\* instruction stays issued, and the running total counts each instruction once.
C17_OldestFirstOnce ==
    [][/\ pc = "issue" =>
            \A i \in IssuedNow : \A j \in Range(rs) :
                (/\ g_store[j].tag < g_store[i].tag
                 /\ g_store[j].type = g_store[i].type
                 /\ ~g_store[j].issued
                 /\ SourcesReady(j)) => j \in IssuedNow
       /\ \A k \in (Len(latch_se_nxt) + 1)..Len(latch_se_nxt') :
            /\ pc = "issue"
            /\ latch_se_nxt'[k] \in Range(rs)
            /\ ~g_store[latch_se_nxt'[k]].issued
            /\ g_store'[latch_se_nxt'[k]].issued
       /\ \A k1, k2 \in DOMAIN latch_se_nxt' :
            latch_se_nxt'[k1] = latch_se_nxt'[k2] => k1 = k2
       /\ IssuedSet(g_store) \subseteq IssuedSet(g_store')
       /\ g_issued_total' = Cardinality(IssuedSet(g_store'))]_vars

\* issue has just issued two entries of one type, the older first, and left a
\* younger entry of that type, ready as well, for want of an FU
C17_Witness ==
    /\ pc = "dispatch"
    /\ Len(latch_se_nxt) = 2
    /\ latch_se_nxt[1] < latch_se_nxt[2]
    /\ g_store[latch_se_nxt[1]].type = g_store[latch_se_nxt[2]].type
    /\ \E y \in Range(rs) :
        /\ ~g_store[y].issued
        /\ SourcesReady(y)
        /\ y > latch_se_nxt[2]
        /\ g_store[y].type = g_store[latch_se_nxt[2]].type

\* ---- C18 ------------------------------------------------------------------
\* the FUs whose inst field is instruction i, in the pool fp
HoldersIn(fp, i) == {u \in DOMAIN fp : fp[u].inst = i}

\* instruction i has started executing and has not won the arbitration yet
Occupying(i) == g_store[i].exec_c # 0 /\ ~HasBroadcast(i)

\* FUs and instructions refer to each other consistently: an instruction that
\* occupies is held by exactly one FU, the one its fu field names; any other
\* instruction is held by none; every instruction on bus_wait is there once
\* and occupies; a held FU's instruction names that FU
FUOccupancy ==
    /\ \A i \in Tags :
        IF Occupying(i)
        THEN /\ g_store[i].fu # 0
             /\ HoldersIn(fu_pool, i) = {g_store[i].fu}
             /\ fu_pool[g_store[i].fu].type = g_store[i].type
        ELSE /\ g_store[i].fu = 0
             /\ HoldersIn(fu_pool, i) = {}
    /\ \A u \in DOMAIN fu_pool :
        fu_pool[u].inst # 0 =>
            /\ fu_pool[u].inst \in Tags
            /\ g_store[fu_pool[u].inst].fu = u
    /\ \A k1, k2 \in DOMAIN bus_wait : bus_wait[k1] = bus_wait[k2] => k1 = k2
    /\ \A i \in Range(bus_wait) :
        /\ Occupying(i)
        /\ g_store[i].waiting_bus
        /\ fu_pool[g_store[i].fu].remaining = 0

\* C18: an FU slot is released only by the broadcast stage. From the start of
\* its execution until it wins the arbitration an instruction is held by
\* exactly one FU (fu.inst = inst and inst.fu = fu), and every instruction on
\* bus_wait, where it appears once, still occupies its FU; the inst field of
\* an occupied FU changes only in the broadcast step that grants its
\* instruction a bus, and then to nullptr; an FU is given an instruction only
\* by start-execute, and only when it is idle.
C18_ReleasedByBroadcastOnly ==
    [][/\ FUOccupancy
       /\ FUOccupancy'
       /\ \A u \in DOMAIN fu_pool :
            fu_pool'[u].inst # fu_pool[u].inst =>
                IF fu_pool[u].inst # 0
                THEN /\ pc = "broadcast"
                     /\ fu_pool'[u].inst = 0
                     /\ fu_pool[u].inst \in LeavingBus
                     /\ g_store'[fu_pool[u].inst].state_c = cycle
                ELSE /\ pc = "start"
                     /\ g_store'[fu_pool'[u].inst].exec_c = cycle]_vars

\* after the broadcast one instruction that finished executing in an earlier
\* cycle is still on bus_wait and holds its FU, while the instruction that won
\* the arbitration has left its FU idle
C18_Witness ==
    /\ pc = "start"
    /\ \E i \in Range(bus_wait) :
        /\ g_store[i].completion_c < cycle
        /\ fu_pool[g_store[i].fu].inst = i
    /\ \E j \in Range(st_update) :
        /\ g_store[j].state_c = cycle
        /\ g_store[j].fu = 0
        /\ \E u \in DOMAIN fu_pool :
            fu_pool[u].inst = 0 /\ fu_pool[u].type = g_store[j].type

\* ---- C19 ------------------------------------------------------------------
\* instruction j has been inserted into the reservation station
Inserted(j) == g_store[j].sched_c # 0

\* a producer-table entry names the youngest inserted writer of the register,
\* which is in the reservation station and has not broadcast
ProducerTable ==
    \A r \in DOMAIN reg_map :
        reg_map[r] # -1 =>
            /\ reg_map[r] \in Tags
            /\ g_store[reg_map[r]].tag = reg_map[r]
            /\ g_store[reg_map[r]].raw.dest_reg = r
            /\ reg_map[r] \in Range(rs)
            /\ ~HasBroadcast(reg_map[r])
            /\ \A j \in Tags :
                (j > reg_map[r] /\ g_store[j].raw.dest_reg = r) => ~Inserted(j)

\* C19: in every state, a register that the producer table maps to tag t is
\* the destination of instruction t, which is in the reservation station and
\* has not broadcast, and no younger writer of the register has been inserted.
\* An entry changes only when the insertion of a writer of the register sets it
\* to that writer's tag, or when the broadcast of the very instruction it names
\* clears it: the broadcast of an instruction that the entry of its destination
\* no longer names leaves the entry as it is.
C19_ProducerTable ==
    [][/\ ProducerTable
       /\ ProducerTable'
       /\ \A r \in DOMAIN reg_map :
            reg_map'[r] # reg_map[r] =>
                \/ /\ pc = "insert"
                   /\ reg_map'[r] \in Range(latch_ds_cur)
                   /\ g_store[reg_map'[r]].raw.dest_reg = r
                \/ /\ pc = "broadcast"
                   /\ reg_map[r] \in LeavingBus
                   /\ reg_map'[r] = -1
       /\ pc = "broadcast" =>
            \A g \in LeavingBus :
                LET d == g_store[g].raw.dest_reg
                IN (d \in DOMAIN reg_map /\ reg_map[d] \notin LeavingBus)
                        => reg_map'[d] = reg_map[d]]_vars

\* an instruction has just broadcast while a younger writer of its destination
\* owns the producer-table entry, which is still in place
C19_Witness ==
    /\ pc = "start"
    /\ \E g \in Range(st_update) :
        LET d == g_store[g].raw.dest_reg
        IN /\ g_store[g].state_c = cycle
           /\ d \in DOMAIN reg_map
           /\ reg_map[d] # -1
           /\ reg_map[d] > g

\* ---- C20 ------------------------------------------------------------------
\* the globals after the tick that the loop is about to run
AfterNextTick == run_tick(Cur, cycle + 1)

\* the loop is about to run its last tick: the test after it ends the loop
LastTickNext ==
    /\ LoopContinues
    /\ trace # <<>>
    /\ AfterNextTick.g_trace_done /\ pipeline_empty(AfterNextTick)

\* no latch, queue, bus or FU holds an instruction
NothingInFlight ==
    /\ q_dispatch = <<>> /\ bus_wait = <<>>
    /\ latch_fd_cur = <<>> /\ latch_fd_nxt = <<>>
    /\ latch_ds_cur = <<>> /\ latch_ds_nxt = <<>>
    /\ latch_se_cur = <<>> /\ latch_se_nxt = <<>>
    /\ \A u \in DOMAIN fu_pool : fu_pool[u].inst = 0

\* C20 as claimed: for a nonempty trace on which run terminates, the last tick
\* of the driver loop contains no useful work: the pipeline is empty when the
\* tick begins, and nothing is fetched, moved, issued, executed, broadcast or
\* retired during it.
C20_AsClaimed ==
    LastTickNext =>
        /\ pipeline_empty(Cur)
        /\ AfterNextTick.g_retired = g_retired
        /\ AfterNextTick.rs = rs
        /\ AfterNextTick.g_store = g_store

\* C20 amended: the last tick only retires. When it begins the trace has been
\* read and the pipeline holds nothing but the instructions that were
\* broadcast in the tick before, which are in the state-update set and still in
\* the reservation station; the tick removes and counts them, which completes
\* the retirement of the trace, and fetches, moves, issues, executes and
\* broadcasts nothing. So the cycle that run_proc reports after its decrement
\* is the cycle of the last broadcast.
C20_LastTickRetiresOnly ==
    /\ LastTickNext =>
        /\ g_trace_done
        /\ NothingInFlight
        /\ st_update # <<>>
        /\ Range(rs) = Range(st_update)
        /\ \A i \in Range(st_update) : g_store[i].state_c = cycle
        /\ AfterNextTick.g_retired = g_retired + Len(st_update)
        /\ AfterNextTick.g_retired = Len(trace)
        /\ AfterNextTick =
              [Cur EXCEPT !.rs = <<>>, !.st_update = <<>>,
                          !.g_retired = Len(trace), !.fired = 0]
    /\ (pc = "exit" /\ trace # <<>>) =>
        /\ \A i \in Tags : g_store[i].state_c <= cycle - 1
        /\ \E i \in Tags : g_store[i].state_c = cycle - 1
    /\ (pc \in {"complete", "done"} /\ trace # <<>>) =>
        /\ \A i \in Tags : g_store[i].state_c <= p_stats.cycle_count
        /\ \E i \in Tags : g_store[i].state_c = p_stats.cycle_count

\* the last tick of a run of MaxLen records is about to begin, with two
\* instructions to retire
C20_Witness ==
    /\ pc = "loop"
    /\ LastTickNext
    /\ Len(trace) = MaxLen
    /\ Len(st_update) = 2
    /\ g_retired = MaxLen - 2

====
